---- MODULE Spec2Model ----
(***************************************************************************)
(* Arsenal teamserver: the 'Action' API (teamserver/api/action.py) and the *)
(* 'Auth' API (teamserver/api/auth.py) as state machines over the          *)
(* persistent store.                                                       *)
(*                                                                         *)
(* The handlers are modelled from the source.  The collaborators they call *)
(* (models.Action/Target/Session/User/APIKey/Role, utils.get_context,      *)
(* Action.parse_action_string) are modelled from their specified contract. *)
(* queue_time (time.time()) and logging are not part of the state.         *)
(***************************************************************************)
EXTENDS Integers, Sequences, FiniteSets, TLC

VARIABLES
    targets,    \* names of the Target documents that exist
    sessions,   \* the Session directory, in iteration order
    actions,    \* the Action collection: a set of documents
    last,       \* the most recent API call: operation, parameters, response
    pc,         \* per request thread: position inside its handler
    req,        \* per request thread: params and handler locals
    users,      \* the User collection: username -> document
    roles,      \* the Role collection: name -> document
    apikeys     \* the APIKey collection: a set of documents

vars == <<targets, sessions, actions, last, pc, req, users, roles, apikeys>>

(***************************************************************************)
(* Bounds                                                                  *)
(***************************************************************************)
MaxActions == 2        \* stored actions in the lifecycle model
MaxInterval == 3       \* session polling intervals range over 1..MaxInterval

None == "None"

TargetNames == {"t1", "t2", "t3"}
ActionStrings == {"exec ls", "sleep 5", "bogus"}
Uuids == {"u1", "u2"}
Usernames == {"alice", "bob"}

(***************************************************************************)
(* Identity store and the AuthContext resolver                             *)
(***************************************************************************)

\* User(username, password, administrator), keyed by username
User(password, administrator) ==
    [password |-> password, administrator |-> administrator]

\* Role(name, allowed_api_calls, users), keyed by name
Role(allowed_api_calls, members) ==
    [users |-> members, allowed_api_calls |-> allowed_api_calls]

Wildcard == "*"

Methods == {"get_action", "list_actions", Wildcard}

RoleNames == {"r1", "r2"}

\* PermissionSet.contains
Contains(permission_set, method) ==
    Wildcard \in permission_set \/ method \in permission_set

\* the role permission sets unioned over the roles the user belongs to
RoleDerived(username) ==
    UNION {roles[r].allowed_api_calls :
             r \in {x \in DOMAIN roles : username \in roles[x].users}}

\* a key's effective set: its own permission set met with its owner's
Intersect(key_set, owner_set) ==
    IF Wildcard \in owner_set THEN key_set
    ELSE IF Wildcard \in key_set THEN owner_set
    ELSE key_set \cap owner_set

\* the persisted form of a raw API key: API_KEY_SALT + "$" + hash
ApiKeyHash(original_key) ==
    CASE original_key = "k0" -> "salt$h0"
      [] original_key = "k1" -> "salt$h1"
      [] original_key = "k2" -> "salt$h2"
      [] OTHER -> "salt$"

RawKeys == {"k1", "k2"}

APIKey_get_key(original_key) ==
    {k \in apikeys : k.key = ApiKeyHash(original_key)}

\* params without an auth object
NoCred == [kind |-> "none", name |-> None]

UserCred(username) == [kind |-> "user", name |-> username]

KeyCred(original_key) == [kind |-> "key", name |-> original_key]

Failed(error) ==
    [administrator |-> FALSE, error |-> error, ok |-> FALSE,
     user |-> None, allowed_methods |-> {}]

Resolved(username, allowed_methods, administrator) ==
    [administrator |-> administrator, error |-> None, ok |-> TRUE,
     user |-> username, allowed_methods |-> allowed_methods]

\* the identity a credential authenticates as
Authenticate(cred) ==
    IF cred.kind = "none" THEN Failed("KeyError")
    ELSE IF cred.kind = "user"
    THEN IF cred.name \in DOMAIN users
         THEN Resolved(cred.name, RoleDerived(cred.name),
                       users[cred.name].administrator)
         ELSE Failed("AuthenticationFailed")
    ELSE LET found == APIKey_get_key(cred.name)
         IN  IF found = {} THEN Failed("AuthenticationFailed")
             ELSE LET key == CHOOSE k \in found : TRUE
                  IN  IF key.owner \notin DOMAIN users
                      THEN Failed("AuthenticationFailed")
                      ELSE Resolved(key.owner,
                                    Intersect(key.allowed_api_calls,
                                              RoleDerived(key.owner)),
                                    users[key.owner].administrator)

\* variant: an impersonating administrator keeps their own permission set
get_context_OwnSet(cred, user_context) ==
    LET auth == Authenticate(cred)
    IN  IF ~auth.ok THEN auth
        ELSE IF user_context = None THEN auth
        ELSE IF ~auth.administrator THEN Failed("PermissionDenied")
        ELSE IF user_context \notin DOMAIN users THEN Failed("NotFound")
        ELSE Resolved(user_context, auth.allowed_methods, TRUE)

\* get_context(params): (user, allowed_methods, administrator), with the
\* administrator's user_context override
get_context(cred, user_context) ==
    LET auth == Authenticate(cred)
    IN  IF ~auth.ok THEN auth
        ELSE IF user_context = None THEN auth
        ELSE IF ~auth.administrator THEN Failed("PermissionDenied")
        ELSE IF user_context \notin DOMAIN users THEN Failed("NotFound")
        ELSE Resolved(user_context, RoleDerived(user_context), TRUE)

(***************************************************************************)
(* Collaborators of create_action                                          *)
(***************************************************************************)

\* Target.get_by_name: the Target document, or nothing
Target_get_by_name(target_name) ==
    IF target_name \in targets THEN target_name ELSE None

\* target.sessions: the sessions of a target, in directory order
Target_sessions(target) ==
    SelectSeq(sessions, LAMBDA s : s.target_name = target)

\* SESSION_STATUSES.get('active', 'active')
SESSION_STATUS_ACTIVE == "active"

\* Action.parse_action_string: {action_type, ...} or MalformedAction
parse_action_string(action_string) ==
    CASE action_string = "exec ls" -> [ok |-> TRUE, action_type |-> "exec"]
      [] action_string = "sleep 5" -> [ok |-> TRUE, action_type |-> "config"]
      [] OTHER -> [ok |-> FALSE, action_type |-> None]

\* the username create_action records: get_context's user, or the sentinel
\* when get_context raises KeyError
NoOwner == "No owner"

OwnerOf(ctx) == IF ctx.ok THEN ctx.user ELSE NoOwner

(***************************************************************************)
(* Session selection (quick mode)                                          *)
(***************************************************************************)

\* variant: no status filter
ActiveSessions_NoFilter(target) ==
    Target_sessions(target)

\* filter(lambda x: x.status == 'active', target.sessions)
ActiveSessions(target) ==
    SelectSeq(Target_sessions(target),
              LAMBDA s : s.status = SESSION_STATUS_ACTIVE)

\* min(seq, key=lambda x: x.interval): the first element of least interval
MinByInterval(seq) ==
    LET least(i) == \A j \in 1..Len(seq) : seq[i].interval <= seq[j].interval
        first == CHOOSE i \in 1..Len(seq) :
                    least(i) /\ \A j \in 1..(i-1) : ~least(j)
    IN seq[first]

\* the quick branch of create_action: the bound session id, or the
\* ValueError that min() raises on an empty iterable
QuickBind(target) ==
    IF ActiveSessions(target) = <<>>
    THEN [error |-> "ValueError", ok |-> FALSE, session_id |-> None]
    ELSE [error |-> None, ok |-> TRUE,
          session_id |-> MinByInterval(ActiveSessions(target)).session_id]

(***************************************************************************)
(* The Action collection                                                   *)
(***************************************************************************)

ActionIdsIn(store) == {a.action_id : a \in store}

\* Action.get_by_id: the documents with this id (none: NotFound)
Action_get_by_id(action_id) == {a \in actions : a.action_id = action_id}

\* variant: the parsed fields overwrite the raw action_string
NewAction_ParsedString(action_id, target_name, action_string, parsed, bound_session_id, owner) ==
    [owner |-> owner,
     target_name |-> target_name,
     action_string |-> parsed.action_type,
     action_type |-> parsed.action_type,
     status |-> "queued",
     action_id |-> action_id,
     bound_session_id |-> bound_session_id]

\* Action(...) followed by update_fields(parsed_action)
NewAction(action_id, target_name, action_string, parsed, bound_session_id, owner) ==
    [owner |-> owner,
     target_name |-> target_name,
     action_string |-> action_string,
     action_type |-> parsed.action_type,
     status |-> "queued",
     action_id |-> action_id,
     bound_session_id |-> bound_session_id]

\* action.save(force_insert=True): insert-if-absent on the unique action_id
SaveForceInsert(store, action) ==
    IF action.action_id \in ActionIdsIn(store)
    THEN [ok |-> FALSE, store |-> store]
    ELSE [ok |-> TRUE, store |-> store \cup {action}]

\* variant: save() without force_insert replaces the document of that id
CommitAction_Upsert(store, action) ==
    [ok |-> TRUE,
     store |-> {a \in store : a.action_id # action.action_id} \cup {action}]

\* if commit: action.save(force_insert=True)
CommitAction(store, action) == SaveForceInsert(store, action)

\* str(uuid4()): an identifier no stored action carries
FreshUuids(store) == Uuids \ ActionIdsIn(store)

\* a call and its response: ret is the identifier a success response
\* carries, doc the document it carries
NoArgs == [none |-> TRUE]

NoDoc == [none |-> TRUE]

Call(op, caller, args, result, ret, doc) ==
    [op |-> op, caller |-> caller, args |-> args, result |-> result,
     ret |-> ret, doc |-> doc]

NoCall == Call("none", NoCred, NoArgs, None, None, NoDoc)

CreateArgs(target_name, action_string, bound_session_id, action_id, quick) ==
    [target_name |-> target_name, action_string |-> action_string,
     action_id |-> action_id, bound_session_id |-> bound_session_id,
     quick |-> quick]

(***************************************************************************)
(* create_action                                                           *)
(***************************************************************************)

\* variant: an explicit bound_session_id wins over quick
BoundSessionId_ExplicitFirst(p, quick) ==
    IF p.bound_session_id # None THEN p.bound_session_id
    ELSE IF p.quick THEN quick.session_id ELSE None

\* bound_session_id = params.get('bound_session_id'), overridden by the
\* session quick mode selects
BoundSessionId(p, quick) ==
    IF p.quick THEN quick.session_id ELSE p.bound_session_id

\* variant: the action string is parsed before the target is looked up
CreateActionOutcome_ParseFirst(caller, p, uuid) ==
    LET ctx == get_context(caller, None)
        target == Target_get_by_name(p.target_name)
        parsed == parse_action_string(p.action_string)
        quick == QuickBind(target)
        bound == BoundSessionId(p, quick)
        id == IF p.action_id = None THEN uuid ELSE p.action_id
        action == NewAction(id, p.target_name, p.action_string, parsed,
                            bound, OwnerOf(ctx))
        saved == CommitAction(actions, action)
    IN  IF ~ctx.ok /\ ctx.error # "KeyError"
        THEN [store |-> actions, result |-> ctx.error, ret |-> None]
        ELSE IF ~parsed.ok
        THEN [store |-> actions, result |-> "MalformedAction", ret |-> None]
        ELSE IF target = None
        THEN [store |-> actions, result |-> "CannotBindAction", ret |-> None]
        ELSE IF p.quick /\ ~quick.ok
        THEN [store |-> actions, result |-> quick.error, ret |-> None]
        ELSE IF ~saved.ok
        THEN [store |-> actions, result |-> "DuplicateKey", ret |-> None]
        ELSE [store |-> saved.store, result |-> "success", ret |-> id]

\* the response of create_action and the collection it leaves, given the
\* uuid it would draw when params has no action_id
CreateActionOutcome(caller, p, uuid) ==
    LET ctx == get_context(caller, None)
        target == Target_get_by_name(p.target_name)
        parsed == parse_action_string(p.action_string)
        quick == QuickBind(target)
        bound == BoundSessionId(p, quick)
        id == IF p.action_id = None THEN uuid ELSE p.action_id
        action == NewAction(id, p.target_name, p.action_string, parsed,
                            bound, OwnerOf(ctx))
        saved == CommitAction(actions, action)
    IN  IF ~ctx.ok /\ ctx.error # "KeyError"
        THEN [store |-> actions, result |-> ctx.error, ret |-> None]
        ELSE IF target = None
        THEN [store |-> actions, result |-> "CannotBindAction", ret |-> None]
        ELSE IF ~parsed.ok
        THEN [store |-> actions, result |-> "MalformedAction", ret |-> None]
        ELSE IF p.quick /\ ~quick.ok
        THEN [store |-> actions, result |-> quick.error, ret |-> None]
        ELSE IF ~saved.ok
        THEN [store |-> actions, result |-> "DuplicateKey", ret |-> None]
        ELSE [store |-> saved.store, result |-> "success", ret |-> id]

create_action(caller, p) ==
    \E uuid \in FreshUuids(actions) :
        LET out == CreateActionOutcome(caller, p, uuid)
        IN  /\ actions' = out.store
            /\ last' = Call("create_action", caller, p, out.result, out.ret, NoDoc)
            /\ UNCHANGED <<targets, sessions, pc, req, users, roles, apikeys>>

(***************************************************************************)
(* get_action                                                              *)
(***************************************************************************)

GetActionResponse(action_id) ==
    LET found == Action_get_by_id(action_id)
    IN  IF found = {}
        THEN [result |-> "NotFound", doc |-> NoDoc]
        ELSE [result |-> "success", doc |-> CHOOSE a \in found : TRUE]

get_action(caller, action_id) ==
    LET out == GetActionResponse(action_id)
    IN  /\ last' = Call("get_action", caller, [action_id |-> action_id],
                        out.result, None, out.doc)
        /\ UNCHANGED <<targets, sessions, actions, pc, req, users, roles, apikeys>>

(***************************************************************************)
(* cancel_action and the dispatch path                                     *)
(***************************************************************************)

\* variant: cancel() marks the document cancelled whatever its state
Action_cancel_AnyState(store, action_id) ==
    LET found == {a \in store : a.action_id = action_id}
    IN  [ok |-> TRUE,
         store |-> {IF a \in found THEN [a EXCEPT !.status = "cancelled"]
                    ELSE a : a \in store}]

\* action.cancel(): Queued -> Cancelled as one conditional update of the
\* stored document; any other state is InvalidStateTransition
Action_cancel(store, action_id) ==
    LET found == {a \in store : a.action_id = action_id}
    IN  IF \E a \in found : a.status = "queued"
        THEN [ok |-> TRUE,
              store |-> {IF a \in found THEN [a EXCEPT !.status = "cancelled"]
                         ELSE a : a \in store}]
        ELSE [ok |-> FALSE, store |-> store]

\* variant: the failure of cancel() is swallowed
CancelResponse_Swallow(ok) == "success"

\* action.cancel() raised or not; return success_response()
CancelResponse(ok) == IF ok THEN "success" ELSE "InvalidStateTransition"

\* variant: the response is success whatever cancel() raised
CancelActionOutcome_Swallow(action_id) ==
    LET found == Action_get_by_id(action_id)
        cancelled == Action_cancel(actions, action_id)
    IN  IF found = {}
        THEN [store |-> actions, result |-> "NotFound"]
        ELSE [store |-> cancelled.store, result |-> "success"]

CancelActionOutcome(action_id) ==
    LET found == Action_get_by_id(action_id)
        cancelled == Action_cancel(actions, action_id)
    IN  IF found = {}
        THEN [store |-> actions, result |-> "NotFound"]
        ELSE [store |-> cancelled.store, result |-> CancelResponse(cancelled.ok)]

cancel_action(caller, action_id) ==
    LET out == CancelActionOutcome(action_id)
    IN  /\ actions' = out.store
        /\ last' = Call("cancel_action", caller, [action_id |-> action_id],
                        out.result, None, NoDoc)
        /\ UNCHANGED <<targets, sessions, pc, req, users, roles, apikeys>>

\* the external dispatch path: a session fetches a Queued action
MarkRetrievedStore(store, action_id) ==
    {IF a.action_id = action_id /\ a.status = "queued"
     THEN [a EXCEPT !.status = "retrieved"] ELSE a : a \in store}

MarkRetrieved(action_id) ==
    /\ \E a \in actions : a.action_id = action_id /\ a.status = "queued"
    /\ actions' = MarkRetrievedStore(actions, action_id)
    /\ last' = Call("mark_retrieved", NoCred, [action_id |-> action_id],
                    "success", None, NoDoc)
    /\ UNCHANGED <<targets, sessions, pc, req, users, roles, apikeys>>

(***************************************************************************)
(* Model of one create_action call: the session directory, the collection  *)
(* and the parameters are drawn, the handler runs once, get_action follows *)
(***************************************************************************)

Session(id, target_name, status, interval) ==
    [target_name |-> target_name, status |-> status,
     interval |-> interval, session_id |-> id]

SessionStatuses == {"active", "inactive"}

Idle == [p \in {} |-> None]

ExistingAction ==
    NewAction("a1", "t1", "exec ls", parse_action_string("exec ls"), None, "alice")

InitCreate ==
    /\ targets = {"t1", "t2"}
    /\ \E st \in [1..3 -> SessionStatuses], iv \in [1..3 -> 1..MaxInterval] :
          sessions = <<Session("s1", "t1", st[1], iv[1]),
                       Session("s2", "t1", st[2], iv[2]),
                       Session("s3", "t1", st[3], iv[3])>>
    /\ actions \in {{}, {ExistingAction}}
    /\ last = NoCall
    /\ pc = Idle
    /\ req = Idle
    /\ users = [u \in Usernames |-> User("pw", FALSE)]
    /\ roles = Idle
    /\ apikeys = {}

CreateOnce ==
    /\ last.op = "none"
    /\ \E caller \in {NoCred, UserCred("alice")}, t \in TargetNames, s \in ActionStrings,
          b \in {None, "s1"}, id \in {None, "a1"}, q \in BOOLEAN :
            create_action(caller, CreateArgs(t, s, b, id, q))

GetAfterCreate ==
    /\ last.op = "create_action"
    /\ \E id \in {last.ret, "a2"} : get_action(UserCred("alice"), id)

NextCreate ==
    \/ CreateOnce
    \/ GetAfterCreate

SpecCreate == InitCreate /\ [][NextCreate]_vars

(***************************************************************************)
(* Lifecycle model: one operator console issuing calls in sequence, and    *)
(* the dispatch path marking actions retrieved                             *)
(***************************************************************************)

InitAction ==
    /\ targets = {"t1"}
    /\ sessions = <<Session("s1", "t1", "active", 2),
                    Session("s2", "t1", "inactive", 1)>>
    /\ actions = {}
    /\ last = NoCall
    /\ pc = Idle
    /\ req = Idle
    /\ users = [u \in Usernames |-> User("pw", FALSE)]
    /\ roles = Idle
    /\ apikeys = {}

ActionCreate ==
    \E t \in {"t1", "t3"}, s \in {"exec ls", "bogus"},
       b \in {None, "s1"}, id \in {None, "a1"} :
        /\ create_action(UserCred("alice"), CreateArgs(t, s, b, id, FALSE))
        /\ Cardinality(actions') <= MaxActions

ActionGet ==
    \E id \in {"a1", "a2"} \cup Uuids : get_action(UserCred("alice"), id)

ActionCancel ==
    \E id \in {"a1", "a2"} \cup Uuids : cancel_action(UserCred("alice"), id)

ActionRetrieve ==
    \E id \in {"a1"} \cup Uuids : MarkRetrieved(id)

NextAction ==
    \/ ActionCreate
    \/ ActionGet
    \/ ActionCancel
    \/ ActionRetrieve

SpecAction == InitAction /\ [][NextAction]_vars

(***************************************************************************)
(* Concurrent model: two request threads, each running one handler step by *)
(* step against the shared store, and the dispatch path                    *)
(***************************************************************************)

Procs == {"p1", "p2"}

\* the operator each thread is authenticated as
ProcUser(p) == IF p = "p1" THEN UserCred("alice") ELSE UserCred("bob")

Request(op, caller, args) ==
    [ctx |-> Failed("KeyError"), op |-> op, caller |-> caller, args |-> args,
     result |-> None, ret |-> None, bound |-> None]

Finish(p, result, ret) ==
    /\ pc' = [pc EXCEPT ![p] = "done"]
    /\ req' = [req EXCEPT ![p].result = result, ![p].ret = ret]

InitRace ==
    /\ targets = {"t1"}
    /\ sessions = <<Session("s1", "t1", "active", 2),
                    Session("s2", "t1", "inactive", 1)>>
    /\ actions = {ExistingAction}
    /\ last = NoCall
    /\ pc = [p \in Procs |-> "idle"]
    /\ req = [p \in Procs |-> Request("none", NoCred, NoArgs)]
    /\ users = [u \in Usernames |-> User("pw", FALSE)]
    /\ roles = Idle
    /\ apikeys = {}

\* a request arrives: create_action(params) or cancel_action(params)
RaceBeginCreate(p) ==
    /\ pc[p] = "idle"
    /\ \E t \in {"t1", "t3"}, s \in {"exec ls", "sleep 5"},
          id \in {None, "a1", "a2"}, q \in BOOLEAN :
            req' = [req EXCEPT ![p] =
                      Request("create_action", ProcUser(p),
                              CreateArgs(t, s, None, id, q))]
    /\ pc' = [pc EXCEPT ![p] = "lookup"]
    /\ UNCHANGED <<targets, sessions, actions, last, users, roles, apikeys>>

RaceBeginCancel(p) ==
    /\ pc[p] = "idle"
    /\ \E id \in {"a1", "a2"} :
            req' = [req EXCEPT ![p] =
                      Request("cancel_action", ProcUser(p), [action_id |-> id])]
    /\ pc' = [pc EXCEPT ![p] = "get"]
    /\ UNCHANGED <<targets, sessions, actions, last, users, roles, apikeys>>

\* create_action: get_context, Target.get_by_name and
\* Action.parse_action_string
RaceLookup(p) ==
    /\ pc[p] = "lookup"
    /\ LET ctx == get_context(req[p].caller, None)
       IN  IF ~ctx.ok /\ ctx.error # "KeyError"
           THEN Finish(p, ctx.error, None)
           ELSE IF Target_get_by_name(req[p].args.target_name) = None
           THEN Finish(p, "CannotBindAction", None)
           ELSE IF ~parse_action_string(req[p].args.action_string).ok
           THEN Finish(p, "MalformedAction", None)
           ELSE /\ pc' = [pc EXCEPT ![p] = "bind"]
                /\ req' = [req EXCEPT ![p].ctx = ctx]
    /\ UNCHANGED <<targets, sessions, actions, last, users, roles, apikeys>>

\* create_action: the quick branch, on the sessions as they are now
RaceBind(p) ==
    /\ pc[p] = "bind"
    /\ LET quick == QuickBind(req[p].args.target_name)
       IN  IF req[p].args.quick /\ ~quick.ok
           THEN Finish(p, quick.error, None)
           ELSE /\ pc' = [pc EXCEPT ![p] = "save"]
                /\ req' = [req EXCEPT ![p].bound = BoundSessionId(req[p].args, quick)]
    /\ UNCHANGED <<targets, sessions, actions, last, users, roles, apikeys>>

\* create_action: Action(...), update_fields, save(force_insert=True)
RaceSave(p) ==
    /\ pc[p] = "save"
    /\ \E uuid \in FreshUuids(actions) :
        LET a == req[p].args
            id == IF a.action_id = None THEN uuid ELSE a.action_id
            action == NewAction(id, a.target_name, a.action_string,
                                parse_action_string(a.action_string),
                                req[p].bound, OwnerOf(req[p].ctx))
            saved == CommitAction(actions, action)
        IN  /\ actions' = saved.store
            /\ IF saved.ok THEN Finish(p, "success", id)
                           ELSE Finish(p, "DuplicateKey", None)
    /\ UNCHANGED <<targets, sessions, last, users, roles, apikeys>>

\* cancel_action: Action.get_by_id
RaceGet(p) ==
    /\ pc[p] = "get"
    /\ IF Action_get_by_id(req[p].args.action_id) = {}
       THEN Finish(p, "NotFound", None)
       ELSE pc' = [pc EXCEPT ![p] = "cancel"] /\ UNCHANGED req
    /\ UNCHANGED <<targets, sessions, actions, last, users, roles, apikeys>>

\* cancel_action: action.cancel() and the response
RaceCancel(p) ==
    /\ pc[p] = "cancel"
    /\ LET cancelled == Action_cancel(actions, req[p].args.action_id)
       IN  /\ actions' = cancelled.store
           /\ Finish(p, CancelResponse(cancelled.ok), None)
    /\ UNCHANGED <<targets, sessions, last, users, roles, apikeys>>

\* the dispatch path hands a Queued action to a session
RaceRetrieve ==
    /\ \E a \in actions :
          /\ a.status = "queued"
          /\ actions' = MarkRetrievedStore(actions, a.action_id)
    /\ UNCHANGED <<targets, sessions, last, pc, req, users, roles, apikeys>>

NextRace ==
    \/ \E p \in Procs : RaceBeginCreate(p)
    \/ \E p \in Procs : RaceBeginCancel(p)
    \/ \E p \in Procs : RaceLookup(p)
    \/ \E p \in Procs : RaceBind(p)
    \/ \E p \in Procs : RaceSave(p)
    \/ \E p \in Procs : RaceGet(p)
    \/ \E p \in Procs : RaceCancel(p)
    \/ RaceRetrieve

SpecRace == InitRace /\ [][NextRace]_vars

(***************************************************************************)
(* create_api_key                                                          *)
(***************************************************************************)

\* variant: the request is refused only if the wildcard itself is requested
DelegationAllowed_WildcardOnly(allowed_api_calls, allowed_methods) ==
    ~(Wildcard \in allowed_api_calls /\ Wildcard \notin allowed_methods)

\* 'Verify allowed api calls': no requested method outside allowed_methods,
\* unless allowed_methods holds the wildcard
DelegationAllowed(allowed_api_calls, allowed_methods) ==
    ~(/\ \E method \in allowed_api_calls : method \notin allowed_methods
      /\ Wildcard \notin allowed_methods)

\* variant: an empty request stores an empty permission set
KeyPermissions_Empty(allowed_api_calls, allowed_methods) ==
    allowed_api_calls

\* the permission set stored in the key: the request, or allowed_methods
\* when the request is empty or omitted
KeyPermissions(allowed_api_calls, allowed_methods) ==
    IF allowed_api_calls # {} THEN allowed_api_calls ELSE allowed_methods

\* APIKey(key, owner, allowed_api_calls)
NewAPIKey(original_key, owner, allowed_api_calls) ==
    [allowed_api_calls |-> allowed_api_calls, key |-> ApiKeyHash(original_key),
     owner |-> owner]

CreateApiKeyOutcome(cred, p, original_key) ==
    LET ctx == get_context(cred, p.user_context)
        key == NewAPIKey(original_key, ctx.user,
                         KeyPermissions(p.allowed_api_calls, ctx.allowed_methods))
    IN  IF ~ctx.ok
        THEN [store |-> apikeys, result |-> ctx.error, ret |-> None]
        ELSE IF /\ p.allowed_api_calls # {}
                /\ ~DelegationAllowed(p.allowed_api_calls, ctx.allowed_methods)
        THEN [store |-> apikeys, result |-> "PermissionDenied", ret |-> None]
        ELSE [store |-> apikeys \cup {key}, result |-> "success",
              ret |-> original_key]

create_api_key(cred, p) ==
    \E original_key \in {k \in RawKeys : APIKey_get_key(k) = {}} :
        LET out == CreateApiKeyOutcome(cred, p, original_key)
        IN  /\ apikeys' = out.store
            /\ last' = Call("create_api_key", cred, p, out.result, out.ret, NoDoc)
            /\ UNCHANGED <<targets, sessions, actions, pc, req, users, roles>>

(***************************************************************************)
(* get_current_context                                                     *)
(***************************************************************************)

get_current_context(cred) ==
    LET ctx == get_context(cred, None)
    IN  /\ last' = Call("get_current_context", cred, NoArgs,
                        IF ctx.ok THEN "success" ELSE ctx.error, None,
                        IF ctx.ok
                        THEN [allowed_api_calls |-> ctx.allowed_methods,
                              username |-> ctx.user]
                        ELSE NoDoc)
        /\ UNCHANGED <<targets, sessions, actions, pc, req, users, roles, apikeys>>

(***************************************************************************)
(* Model of one create_api_key call: the role permission sets, the key     *)
(* collection and the parameters are drawn, the handler runs once, and the *)
(* new key is then used to authenticate                                    *)
(***************************************************************************)

InitKey ==
    /\ targets = {}
    /\ sessions = <<>>
    /\ actions = {}
    /\ last = NoCall
    /\ pc = Idle
    /\ req = Idle
    /\ users = [u \in {"admin", "alice", "bob"} |-> User("pw", u = "admin")]
    /\ \E p1 \in SUBSET Methods, p2 \in SUBSET Methods :
          roles = [r \in RoleNames |->
                     IF r = "r1" THEN Role(p1, {"admin", "alice"})
                                 ELSE Role(p2, {"alice", "bob"})]
    /\ \E k0 \in SUBSET Methods :
          apikeys \in {{}, {NewAPIKey("k0", "alice", k0)}}

KeyCreateOnce ==
    /\ last.op = "none"
    /\ \E cred \in {UserCred("admin"), UserCred("alice"), UserCred("bob"),
                     KeyCred("k0")},
          allowed \in SUBSET Methods,
          uc \in {None, "alice", "bob"} :
            create_api_key(cred, [allowed_api_calls |-> allowed,
                                  user_context |-> uc])

KeyUse ==
    /\ last.op = "create_api_key"
    /\ last.result = "success"
    /\ get_current_context(KeyCred(last.ret))

NextKey ==
    \/ KeyCreateOnce
    \/ KeyUse

SpecKey == InitKey /\ [][NextKey]_vars

(***************************************************************************)
(* Role handlers: update_role_permissions, add_role_member,                *)
(* remove_role_member, create_role                                         *)
(***************************************************************************)

\* Role.get_role: the role documents of this name (none: NotFound)
Role_get_role(role_name) == {r \in DOMAIN roles : r = role_name}

\* variant: the new list is assigned but the role is never saved
UpdateRolePermissionsOutcome_NoSave(role_name, allowed_api_calls) ==
    IF Role_get_role(role_name) = {}
    THEN [store |-> roles, result |-> "NotFound"]
    ELSE [store |-> roles, result |-> "success"]

\* role.allowed_api_calls = params['allowed_api_calls']; role.save()
UpdateRolePermissionsOutcome(role_name, allowed_api_calls) ==
    IF Role_get_role(role_name) = {}
    THEN [store |-> roles, result |-> "NotFound"]
    ELSE [store |-> [roles EXCEPT ![role_name].allowed_api_calls =
                                      allowed_api_calls],
          result |-> "success"]

update_role_permissions(cred, role_name, allowed_api_calls) ==
    LET out == UpdateRolePermissionsOutcome(role_name, allowed_api_calls)
    IN  /\ roles' = out.store
        /\ last' = Call("update_role_permissions", cred,
                        [allowed_api_calls |-> allowed_api_calls,
                         role_name |-> role_name],
                        out.result, None, NoDoc)
        /\ UNCHANGED <<targets, sessions, actions, pc, req, users, apikeys>>

\* role.add_member(username)
AddRoleMemberOutcome(role_name, username) ==
    IF Role_get_role(role_name) = {}
    THEN [store |-> roles, result |-> "NotFound"]
    ELSE [store |-> [roles EXCEPT ![role_name].users = @ \cup {username}],
          result |-> "success"]

add_role_member(cred, role_name, username) ==
    LET out == AddRoleMemberOutcome(role_name, username)
    IN  /\ roles' = out.store
        /\ last' = Call("add_role_member", cred,
                        [username |-> username, role_name |-> role_name],
                        out.result, None, NoDoc)
        /\ UNCHANGED <<targets, sessions, actions, pc, req, users, apikeys>>

\* role.remove_member(username)
RemoveRoleMemberOutcome(role_name, username) ==
    IF Role_get_role(role_name) = {}
    THEN [store |-> roles, result |-> "NotFound"]
    ELSE [store |-> [roles EXCEPT ![role_name].users = @ \ {username}],
          result |-> "success"]

remove_role_member(cred, role_name, username) ==
    LET out == RemoveRoleMemberOutcome(role_name, username)
    IN  /\ roles' = out.store
        /\ last' = Call("remove_role_member", cred,
                        [username |-> username, role_name |-> role_name],
                        out.result, None, NoDoc)
        /\ UNCHANGED <<targets, sessions, actions, pc, req, users, apikeys>>

\* a key handed to params.get: the string 'users', or the local list users
StrKey(name) == [name |-> name, type |-> "str"]

ListKey == [name |-> None, type |-> "list"]

\* dict.get(key): hashing a list raises TypeError; a missing key gives None
DictGet(p, key) ==
    IF key.type = "list" THEN [raised |-> TRUE, value |-> {}]
    ELSE IF key.name \in DOMAIN p THEN [raised |-> FALSE, value |-> p[key.name]]
    ELSE [raised |-> FALSE, value |-> {}]

\* the key create_role passes to params.get: the local list users
CreateRoleUsersKey == ListKey

\* Role(...).save(force_insert=True): insert-if-absent on the unique name
Role_save_force_insert(store, name, role) ==
    IF name \in DOMAIN store
    THEN [ok |-> FALSE, store |-> store]
    ELSE [ok |-> TRUE,
          store |-> [r \in DOMAIN store \cup {name} |->
                       IF r = name THEN role ELSE store[r]]]

\* create_role: p has name, allowed_api_calls and users ({} when omitted)
CreateRoleOutcome(p) ==
    LET given == DictGet(p, CreateRoleUsersKey)
        listed == IF given.value # {} THEN p.users ELSE {}
        saved == Role_save_force_insert(roles, p.name,
                                        Role(p.allowed_api_calls, listed))
    IN  IF given.raised
        THEN [store |-> roles, result |-> "TypeError"]
        ELSE IF \E u \in listed : u \notin DOMAIN users
        THEN [store |-> roles, result |-> "NotFound"]
        ELSE IF ~saved.ok
        THEN [store |-> roles, result |-> "DuplicateKey"]
        ELSE [store |-> saved.store, result |-> "success"]

create_role(cred, p) ==
    LET out == CreateRoleOutcome(p)
    IN  /\ roles' = out.store
        /\ last' = Call("create_role", cred, p, out.result, None, NoDoc)
        /\ UNCHANGED <<targets, sessions, actions, pc, req, users, apikeys>>

(***************************************************************************)
(* Role model: operators hold keys while role permissions and membership   *)
(* are edited                                                              *)
(***************************************************************************)

PermissionChoices ==
    {{}, {"get_action"}, {"get_action", "list_actions"}, {Wildcard}}

InitRole ==
    /\ targets = {}
    /\ sessions = <<>>
    /\ actions = {}
    /\ last = NoCall
    /\ pc = Idle
    /\ req = Idle
    /\ users = [u \in {"admin", "alice", "bob"} |-> User("pw", u = "admin")]
    /\ roles = [r \in RoleNames |->
                  IF r = "r1" THEN Role({Wildcard}, {"admin", "alice"})
                              ELSE Role({"get_action", "list_actions"},
                                        {"alice", "bob"})]
    /\ apikeys = {}

RoleUpdatePermissions ==
    \E r \in RoleNames \cup {"r3"}, allowed \in PermissionChoices :
        update_role_permissions(UserCred("bob"), r, allowed)

RoleAddMember ==
    add_role_member(UserCred("bob"), "r1", "bob")

RoleRemoveMember ==
    remove_role_member(UserCred("bob"), "r1", "bob")

RoleCreate ==
    \E name \in {"r1", "r3"}, members \in {{}, {"bob"}} :
        create_role(UserCred("bob"),
                    [users |-> members, allowed_api_calls |-> {Wildcard},
                     name |-> name])

RoleCreateKey ==
    \E allowed \in {{}, {"list_actions"}} :
        create_api_key(UserCred("bob"), [allowed_api_calls |-> allowed,
                                         user_context |-> None])

RoleAuthenticate ==
    \E cred \in {UserCred("bob")} \cup {KeyCred(k) : k \in RawKeys} :
        get_current_context(cred)

NextRole ==
    \/ RoleUpdatePermissions
    \/ RoleAddMember
    \/ RoleRemoveMember
    \/ RoleCreate
    \/ RoleCreateKey
    \/ RoleAuthenticate

SpecRole == InitRole /\ [][NextRole]_vars

(***************************************************************************)
(* User handlers: create_user, delete_user, update_user_password, and      *)
(* revoke_api_key                                                          *)
(***************************************************************************)

Passwords == {"pw", "pw2"}

\* User.hash_password: the stored form of a password
hash_password(password) ==
    CASE password = "pw" -> "argon2$pw"
      [] password = "pw2" -> "argon2$pw2"
      [] OTHER -> "argon2$"

\* User.get_user: the user documents of this name (none: NotFound)
User_get_user(username) == {u \in DOMAIN users : u = username}

\* user.save(force_insert=True): insert-if-absent on the unique username
User_save_force_insert(store, username, user) ==
    IF username \in DOMAIN store
    THEN [ok |-> FALSE, store |-> store]
    ELSE [ok |-> TRUE,
          store |-> [u \in DOMAIN store \cup {username} |->
                       IF u = username THEN user ELSE store[u]]]

\* variant: the administrator flag is taken from params
NewUser_FromParams(p) ==
    User(hash_password(p.password), p.administrator)

\* User(username, password=password_hash, administrator=False)
NewUser(p) ==
    User(hash_password(p.password), FALSE)

CreateUserOutcome(p) ==
    LET saved == User_save_force_insert(users, p.username, NewUser(p))
    IN  IF ~saved.ok
        THEN [store |-> users, result |-> "DuplicateKey"]
        ELSE [store |-> saved.store, result |-> "success"]

\* the params create_user leaves behind: del params['password']
CreateUserArgs(p) ==
    [administrator |-> p.administrator, username |-> p.username]

create_user(cred, p) ==
    LET out == CreateUserOutcome(p)
    IN  /\ users' = out.store
        /\ last' = Call("create_user", cred, CreateUserArgs(p),
                        out.result, None, NoDoc)
        /\ UNCHANGED <<targets, sessions, actions, pc, req, roles, apikeys>>

\* user.remove(): the user document is deleted
User_remove(store, username) ==
    [u \in DOMAIN store \ {username} |-> store[u]]

DeleteUserOutcome(username) ==
    IF User_get_user(username) = {}
    THEN [store |-> users, result |-> "NotFound"]
    ELSE [store |-> User_remove(users, username), result |-> "success"]

delete_user(cred, username) ==
    LET out == DeleteUserOutcome(username)
    IN  /\ users' = out.store
        /\ last' = Call("delete_user", cred, [username |-> username],
                        out.result, None, NoDoc)
        /\ UNCHANGED <<targets, sessions, actions, pc, req, roles, apikeys>>

\* user.update_password(current, new): verify the old, set the new
User_update_password(store, username, current_password, new_password) ==
    IF hash_password(current_password) = store[username].password
    THEN [ok |-> TRUE,
          store |-> [store EXCEPT ![username].password =
                                      hash_password(new_password)]]
    ELSE [ok |-> FALSE, store |-> store]

\* variant: the override applies to every call on a non-administrator
AdministratorOverride_AnyCaller(ctx) ==
    ~users[ctx.user].administrator

\* if administrator and not user.administrator
AdministratorOverride(ctx) ==
    ctx.administrator /\ ~users[ctx.user].administrator

UpdateUserPasswordOutcome(cred, p) ==
    LET ctx == get_context(cred, p.user_context)
        updated == User_update_password(users, ctx.user, p.current_password,
                                        p.new_password)
    IN  IF ~ctx.ok
        THEN [store |-> users, result |-> ctx.error]
        ELSE IF AdministratorOverride(ctx)
        THEN [store |-> [users EXCEPT ![ctx.user].password =
                                          hash_password(p.new_password)],
              result |-> "success"]
        ELSE IF ~updated.ok
        THEN [store |-> users, result |-> "AuthenticationFailed"]
        ELSE [store |-> updated.store, result |-> "success"]

update_user_password(cred, p) ==
    LET out == UpdateUserPasswordOutcome(cred, p)
    IN  /\ users' = out.store
        /\ last' = Call("update_user_password", cred, p, out.result, None, NoDoc)
        /\ UNCHANGED <<targets, sessions, actions, pc, req, roles, apikeys>>

\* variant: the owner check is dropped
RevokeDenied_Never(key, ctx) == FALSE

\* if api_key.owner != user.username and not administrator
RevokeDenied(key, ctx) ==
    key.owner # ctx.user /\ ~ctx.administrator

RevokeApiKeyOutcome(cred, p) ==
    LET ctx == get_context(cred, p.user_context)
        found == APIKey_get_key(p.api_key)
        key == CHOOSE k \in found : TRUE
    IN  IF ~ctx.ok
        THEN [store |-> apikeys, result |-> ctx.error]
        ELSE IF found = {}
        THEN [store |-> apikeys, result |-> "NotFound"]
        ELSE IF RevokeDenied(key, ctx)
        THEN [store |-> apikeys, result |-> "PermissionDenied"]
        ELSE [store |-> apikeys \ {key}, result |-> "success"]

revoke_api_key(cred, p) ==
    LET out == RevokeApiKeyOutcome(cred, p)
    IN  /\ apikeys' = out.store
        /\ last' = Call("revoke_api_key", cred, p, out.result, None, NoDoc)
        /\ UNCHANGED <<targets, sessions, actions, pc, req, users, roles>>

(***************************************************************************)
(* User model: users come and go, change passwords, hold and revoke keys   *)
(***************************************************************************)

InitialAdministrators == {"admin"}

InitUser ==
    /\ targets = {}
    /\ sessions = <<>>
    /\ actions = {}
    /\ last = NoCall
    /\ pc = Idle
    /\ req = Idle
    /\ users = [u \in {"admin", "alice", "bob"} |->
                  User(hash_password("pw"), u \in InitialAdministrators)]
    /\ roles = [r \in RoleNames |->
                  IF r = "r1" THEN Role({Wildcard}, {"admin"})
                              ELSE Role({"get_action"}, {"alice", "bob"})]
    /\ apikeys = {}

UserCreate ==
    \E u \in {"alice", "admin"}, pw \in Passwords, adm \in BOOLEAN :
        create_user(UserCred("bob"),
                    [password |-> pw, administrator |-> adm, username |-> u])

UserDelete ==
    \E u \in {"alice", "admin"} : delete_user(UserCred("bob"), u)

UserUpdatePassword ==
    \E c \in {<<"alice", None>>, <<"admin", None>>, <<"admin", "alice">>,
               <<"bob", "alice">>},
       current \in Passwords, new \in Passwords :
        update_user_password(UserCred(c[1]),
                             [user_context |-> c[2],
                              current_password |-> current,
                              new_password |-> new])

UserCreateKey ==
    create_api_key(UserCred("alice"),
                   [allowed_api_calls |-> {}, user_context |-> None])

UserRevokeKey ==
    \E c \in {<<UserCred("alice"), None>>, <<UserCred("bob"), None>>,
               <<UserCred("admin"), None>>, <<UserCred("admin"), "bob">>,
               <<KeyCred("k1"), None>>},
       raw \in RawKeys :
        revoke_api_key(c[1], [user_context |-> c[2], api_key |-> raw])

UserAuthenticate ==
    \E raw \in RawKeys : get_current_context(KeyCred(raw))

NextUser ==
    \/ UserCreate
    \/ UserDelete
    \/ UserUpdatePassword
    \/ UserCreateKey
    \/ UserRevokeKey
    \/ UserAuthenticate

SpecUser == InitUser /\ [][NextUser]_vars

(***************************************************************************)
(* duplicate_action                                                        *)
(***************************************************************************)

\* variant: the binding of the original is not carried over
DuplicateParams_Unbound(action) ==
    CreateArgs(action.target_name, action.action_string, None, None, FALSE)

\* local_params: target_name, action_string, and bound_session_id when the
\* original has one; no action_id and no quick
DuplicateParams(action) ==
    CreateArgs(action.target_name, action.action_string,
               IF action.bound_session_id # None
               THEN action.bound_session_id ELSE None,
               None, FALSE)

DuplicateActionOutcome(caller, action_id, uuid) ==
    LET found == Action_get_by_id(action_id)
        action == CHOOSE a \in found : TRUE
    IN  IF found = {}
        THEN [store |-> actions, result |-> "NotFound", ret |-> None]
        ELSE IF caller.kind = "none"
        THEN [store |-> actions, result |-> "KeyError", ret |-> None]
        ELSE CreateActionOutcome(caller, DuplicateParams(action), uuid)

duplicate_action(caller, action_id) ==
    \E uuid \in FreshUuids(actions) :
        LET out == DuplicateActionOutcome(caller, action_id, uuid)
        IN  /\ actions' = out.store
            /\ last' = Call("duplicate_action", caller,
                            [action_id |-> action_id],
                            out.result, out.ret, NoDoc)
            /\ UNCHANGED <<targets, sessions, pc, req, users, roles, apikeys>>

\* outside the API: a target is removed from the target store
RemoveTarget(target_name) ==
    /\ target_name \in targets
    /\ targets' = targets \ {target_name}
    /\ last' = Call("remove_target", NoCred, [target_name |-> target_name],
                    "success", None, NoDoc)
    /\ UNCHANGED <<sessions, actions, pc, req, users, roles, apikeys>>

(***************************************************************************)
(* Life-cycle model with duplication: create, cancel, duplicate, dispatch, *)
(* and the removal of the target                                           *)
(***************************************************************************)

InitLife ==
    /\ targets = {"t1"}
    /\ sessions = <<Session("s1", "t1", "active", 2)>>
    /\ actions = {}
    /\ last = NoCall
    /\ pc = Idle
    /\ req = Idle
    /\ users = [u \in Usernames |-> User("pw", FALSE)]
    /\ roles = Idle
    /\ apikeys = {}

LifeCreate ==
    \E c \in {<<"exec ls", None>>, <<"sleep 5", "s1">>} :
        /\ create_action(UserCred("alice"),
                         CreateArgs("t1", c[1], c[2], None, FALSE))
        /\ Cardinality(actions') <= MaxActions

LifeCancel ==
    \E id \in Uuids : cancel_action(UserCred("alice"), id)

LifeDuplicate ==
    \E caller \in {UserCred("bob"), NoCred}, id \in Uuids \cup {"a1"} :
        /\ duplicate_action(caller, id)
        /\ Cardinality(actions') <= MaxActions

LifeRetrieve ==
    \E id \in Uuids : MarkRetrieved(id)

LifeRemoveTarget == RemoveTarget("t1")

NextLife ==
    \/ LifeCreate
    \/ LifeCancel
    \/ LifeDuplicate
    \/ LifeRetrieve
    \/ LifeRemoveTarget

SpecLife == InitLife /\ [][NextLife]_vars

(***************************************************************************)
(* Properties of create_action, get_action and cancel_action               *)
(***************************************************************************)

Stored(action_id) == CHOOSE a \in actions : a.action_id = action_id

IsStored(action_id) == \E a \in actions : a.action_id = action_id

SessionsOf(target_name) ==
    {sessions[i] : i \in {j \in 1..Len(sessions) : sessions[j].target_name = target_name}}

ActiveOf(target_name) == {s \in SessionsOf(target_name) : s.status = "active"}

Parseable(action_string) == action_string \in {"exec ls", "sleep 5"}

\* C1: create_action naming a target that does not exist answers
\* CannotBindAction and leaves the Action collection as it was, whatever
\* action_string, bound_session_id, action_id and quick are.
C1_MissingTargetCannotBind ==
    [][(last'.op = "create_action" /\ last'.args.target_name \notin targets)
        => (last'.result = "CannotBindAction" /\ actions' = actions)]_vars

C1_Witness ==
    /\ last.op = "create_action"
    /\ last.args.target_name \notin targets
    /\ last.args.action_string = "bogus"
    /\ last.args.quick
    /\ last.args.action_id = "a1"
    /\ last.result = "CannotBindAction"
    /\ actions = {ExistingAction}

\* C2: after a successful create_action, get_action on the returned id
\* returns a document whose target_name and action_string are the inputs and
\* whose status is Queued.
C2_CreateThenGet ==
    (last.op = "create_action" /\ last.result = "success")
        => LET r == GetActionResponse(last.ret)
           IN  /\ r.result = "success"
               /\ r.doc.action_id = last.ret
               /\ r.doc.target_name = last.args.target_name
               /\ r.doc.action_string = last.args.action_string
               /\ r.doc.status = "queued"

C2_Witness ==
    /\ last.op = "get_action"
    /\ last.result = "success"
    /\ last.args.action_id \in Uuids
    /\ last.doc.action_string = "sleep 5"
    /\ last.doc.target_name = "t2"
    /\ last.doc.status = "queued"

\* C3: cancel_action on a Queued action succeeds and makes it Cancelled; on
\* a Cancelled action it answers InvalidStateTransition and leaves it
\* Cancelled; on an id that is not stored it answers NotFound and changes
\* no action.
C3_CancelOutcomes ==
    [][last'.op = "cancel_action" =>
        LET id == last'.args.action_id
        IN  IF IsStored(id)
            THEN /\ Stored(id).status = "queued" =>
                      /\ last'.result = "success"
                      /\ actions' = (actions \ {Stored(id)})
                                     \cup {[Stored(id) EXCEPT !.status = "cancelled"]}
                 /\ Stored(id).status = "cancelled" =>
                      /\ last'.result = "InvalidStateTransition"
                      /\ actions' = actions
            ELSE /\ last'.result = "NotFound"
                 /\ actions' = actions]_vars

C3_Witness ==
    /\ last.op = "cancel_action"
    /\ last.result = "InvalidStateTransition"
    /\ IsStored(last.args.action_id)
    /\ Stored(last.args.action_id).status = "cancelled"
    /\ \E a \in actions : a.status = "queued"

\* C4: create_action with quick on a target that has an active session
\* binds the new action to an active session of that target whose interval
\* is least among the target's active sessions; an inactive session is
\* never bound, however small its interval.
C4_QuickBindsFastestActive ==
    [][(/\ last'.op = "create_action"
        /\ last'.args.quick
        /\ last'.args.target_name \in targets
        /\ ActiveOf(last'.args.target_name) # {}
        /\ Parseable(last'.args.action_string)
        /\ ~IsStored(last'.args.action_id))
        => /\ last'.result = "success"
           /\ \E a \in actions' \ actions :
                /\ a.action_id = last'.ret
                /\ \E s \in ActiveOf(last'.args.target_name) :
                      /\ a.bound_session_id = s.session_id
                      /\ \A o \in ActiveOf(last'.args.target_name) :
                            s.interval <= o.interval]_vars

C4_Witness ==
    /\ last.op = "create_action"
    /\ last.args.quick
    /\ last.result = "success"
    /\ \E s \in ActiveOf("t1"), o \in ActiveOf("t1"), i \in SessionsOf("t1") :
          /\ Stored(last.ret).bound_session_id = s.session_id
          /\ s.interval < o.interval
          /\ i.status = "inactive"
          /\ i.interval < s.interval

\* C5: create_action with quick on an existing target that has no active
\* session answers NoActiveSession and stores nothing.
C5_QuickNoActiveSession ==
    [][(/\ last'.op = "create_action"
        /\ last'.args.quick
        /\ last'.args.target_name \in targets
        /\ ActiveOf(last'.args.target_name) = {}
        /\ Parseable(last'.args.action_string))
        => (last'.result = "NoActiveSession" /\ actions' = actions)]_vars

\* C6: with quick set, the stored bound_session_id is the session quick
\* selection chose, also when an explicit bound_session_id was supplied;
\* without quick it is exactly the supplied one, or absent when none was.
C6_QuickOverridesExplicit ==
    (last.op = "create_action" /\ last.result = "success")
        => LET a == Stored(last.ret)
               active == ActiveOf(last.args.target_name)
           IN  IF last.args.quick
               THEN \E s \in active :
                        /\ a.bound_session_id = s.session_id
                        /\ \A o \in active : s.interval <= o.interval
               ELSE a.bound_session_id = last.args.bound_session_id

C6_Witness ==
    /\ last.op = "create_action"
    /\ last.result = "success"
    /\ last.args.quick
    /\ last.args.bound_session_id = "s1"
    /\ Stored(last.ret).bound_session_id = "s3"

(***************************************************************************)
(* Properties of the concurrent model                                      *)
(***************************************************************************)

ValidCreate(p) ==
    /\ req[p].op = "create_action"
    /\ req[p].args.target_name \in targets
    /\ Parseable(req[p].args.action_string)
    /\ (req[p].args.quick => ActiveOf(req[p].args.target_name) # {})

WrittenBy(p, a) ==
    /\ a.target_name = req[p].args.target_name
    /\ a.action_string = req[p].args.action_string
    /\ a.owner = req[p].caller.name
    /\ a.bound_session_id = req[p].bound

\* C9: of two concurrent create_action calls with the same explicit
\* action_id, exactly one succeeds and the other answers DuplicateKey; the
\* collection never holds two actions with one action_id, and the stored
\* action is the one the successful call wrote.
C9_ConcurrentCreateSameId ==
    /\ \A a, b \in actions : a.action_id = b.action_id => a = b
    /\ \A p, q \in Procs :
          (/\ p # q
           /\ pc[p] = "done" /\ pc[q] = "done"
           /\ ValidCreate(p) /\ ValidCreate(q)
           /\ req[p].args.action_id # None
           /\ req[p].args.action_id = req[q].args.action_id
           /\ req[p].args.action_id \notin ActionIdsIn({ExistingAction}))
          => /\ {req[p].result, req[q].result} = {"success", "DuplicateKey"}
             /\ req[p].result = "success" =>
                   /\ IsStored(req[p].args.action_id)
                   /\ WrittenBy(p, Stored(req[p].args.action_id))

C9_Witness ==
    /\ pc["p1"] = "done" /\ pc["p2"] = "done"
    /\ ValidCreate("p1") /\ ValidCreate("p2")
    /\ req["p1"].args.action_id = "a2"
    /\ req["p2"].args.action_id = "a2"
    /\ req["p1"].args.action_string # req["p2"].args.action_string
    /\ req["p1"].result = "DuplicateKey"
    /\ req["p2"].result = "success"
    /\ Stored("a2").owner = "bob"

\* C10: when cancel_action races with the dispatch path on a Queued action,
\* the action ends Cancelled or Retrieved by exactly one of them: the call
\* answers success only if the action is Cancelled, and answers
\* InvalidStateTransition when the action was retrieved first.
C10_CancelVersusRetrieve ==
    \A p \in Procs :
        (/\ pc[p] = "done"
         /\ req[p].op = "cancel_action"
         /\ req[p].result # "NotFound")
        => LET a == Stored(req[p].args.action_id)
           IN  /\ IsStored(req[p].args.action_id)
               /\ req[p].result \in {"success", "InvalidStateTransition"}
               /\ a.status \in {"cancelled", "retrieved"}
               /\ req[p].result = "success" => a.status = "cancelled"
               /\ a.status = "retrieved" => req[p].result = "InvalidStateTransition"
               /\ (a.status = "cancelled" /\ req[p].result # "success")
                    => \E q \in Procs \ {p} :
                          /\ req[q].op = "cancel_action"
                          /\ req[q].args.action_id = a.action_id
                          /\ req[q].result = "success"

C10_Witness ==
    /\ pc["p1"] = "done"
    /\ req["p1"].op = "cancel_action"
    /\ req["p1"].args.action_id = "a1"
    /\ req["p1"].result = "InvalidStateTransition"
    /\ Stored("a1").status = "retrieved"
    /\ pc["p2"] = "idle"

(***************************************************************************)
(* Properties of create_api_key                                            *)
(***************************************************************************)

\* the context the issuer of the last create_api_key call resolved to
Issuer == get_context(last.caller, last.args.user_context)

NewKey == CHOOSE k \in apikeys : k.key = ApiKeyHash(last.ret)

\* C7: create_api_key with a non-empty allowed_api_calls succeeds exactly
\* when every requested method is in the issuer's effective set or that set
\* holds the wildcard, and otherwise answers PermissionDenied and stores no
\* key; so a stored key's permission set is within its issuer's effective
\* set unless the issuer held the wildcard.
C7_DelegationEnforced ==
    [][(last'.op = "create_api_key" /\ Issuer'.ok)
        => LET requested == last'.args.allowed_api_calls
               held == Issuer'.allowed_methods
               within == requested \subseteq held \/ Wildcard \in held
           IN  /\ (requested # {} /\ within) => last'.result = "success"
               /\ (requested # {} /\ ~within) =>
                     (last'.result = "PermissionDenied" /\ apikeys' = apikeys)
               /\ \A k \in apikeys' \ apikeys :
                     /\ k.allowed_api_calls \subseteq held \/ Wildcard \in held
                     /\ requested # {} => k.allowed_api_calls = requested]_vars

C7_Witness ==
    /\ last.op = "create_api_key"
    /\ last.result = "PermissionDenied"
    /\ Issuer.ok
    /\ last.args.allowed_api_calls = {"get_action"}
    /\ Issuer.allowed_methods = {"list_actions"}

\* C8: create_api_key with allowed_api_calls empty or omitted succeeds for
\* an authenticated issuer, and the key it stores can invoke exactly the
\* methods the issuer can invoke.
C8_EmptyRequestInherits ==
    (/\ last.op = "create_api_key"
     /\ last.args.allowed_api_calls = {}
     /\ Issuer.ok)
    => /\ last.result = "success"
       /\ NewKey.owner = Issuer.user
       /\ NewKey.allowed_api_calls = Issuer.allowed_methods
       /\ \A m \in Methods \ {Wildcard} :
             Contains(get_context(KeyCred(last.ret), None).allowed_methods, m)
               <=> Contains(Issuer.allowed_methods, m)

C8_Witness ==
    /\ last.op = "get_current_context"
    /\ last.result = "success"
    /\ last.caller = KeyCred("k1")
    /\ last.doc.username = "bob"
    /\ last.doc.allowed_api_calls = {"get_action"}
    /\ RoleDerived("bob") = {"get_action"}

(***************************************************************************)
(* Properties of the role handlers                                         *)
(***************************************************************************)

KeyContext(raw) == get_context(KeyCred(raw), None)

UserContext(u) == get_context(UserCred(u), None)

StoredKey(raw) == CHOOSE k \in apikeys : k.key = ApiKeyHash(raw)

OtherRolesGrant(u, role_name, m) ==
    \E r \in DOMAIN roles \ {role_name} :
        u \in roles[r].users /\ Contains(roles[r].allowed_api_calls, m)

\* C11: once update_role_permissions has taken a method away from a role,
\* a member no other role grants it to no longer gets it when authenticating,
\* and neither does any key that member owns, whatever the key stores; a
\* key's effective set is its own set met with its owner's live set.
C11_RoleUpdateReachesUsersAndKeys ==
    [][(last'.op = "update_role_permissions" /\ last'.result = "success")
        => LET r == last'.args.role_name
           IN  /\ roles'[r].allowed_api_calls = last'.args.allowed_api_calls
               /\ \A u \in roles[r].users, m \in Methods :
                     (/\ Contains(roles[r].allowed_api_calls, m)
                      /\ ~Contains(last'.args.allowed_api_calls, m)
                      /\ ~OtherRolesGrant(u, r, m))
                     => /\ ~Contains(UserContext(u)'.allowed_methods, m)
                        /\ \A raw \in RawKeys :
                              (APIKey_get_key(raw) # {}
                                 /\ StoredKey(raw).owner = u)
                              => ~Contains(KeyContext(raw)'.allowed_methods, m)
               /\ \A raw \in RawKeys, m \in Methods :
                     APIKey_get_key(raw) # {} =>
                       (Contains(KeyContext(raw)'.allowed_methods, m)
                          <=> /\ Contains(StoredKey(raw).allowed_api_calls, m)
                              /\ Contains(RoleDerived(StoredKey(raw).owner)', m))]_vars

C11_Witness ==
    /\ last.op = "update_role_permissions"
    /\ last.args.role_name = "r2"
    /\ last.args.allowed_api_calls = {"get_action"}
    /\ \E raw \in RawKeys :
          /\ APIKey_get_key(raw) # {}
          /\ StoredKey(raw).owner = "bob"
          /\ StoredKey(raw).allowed_api_calls = {"get_action", "list_actions"}
          /\ KeyContext(raw).allowed_methods = {"get_action"}
    /\ UserContext("bob").allowed_methods = {"get_action"}

(***************************************************************************)
(* Properties of the user handlers and of revoke_api_key                   *)
(***************************************************************************)

\* the context the caller of the step's call resolves to, before the call
Resolver == get_context(last'.caller, last'.args.user_context)

C13_RevokeOwnerOrAdministrator ==
    [][/\ \A raw \in RawKeys :
            (/\ last'.op = "revoke_api_key"
             /\ last'.args.api_key = raw
             /\ Resolver.ok
             /\ APIKey_get_key(raw) # {})
            => IF StoredKey(raw).owner = Resolver.user \/ Resolver.administrator
               THEN /\ last'.result = "success"
                    /\ apikeys' = apikeys \ {StoredKey(raw)}
               ELSE /\ last'.result = "PermissionDenied"
                    /\ apikeys' = apikeys
                    /\ KeyContext(raw)' = KeyContext(raw)
       /\ (apikeys \ apikeys' # {}) =>
            /\ last'.op = "revoke_api_key"
            /\ last'.result = "success"]_vars

C13_Witness ==
    /\ last.op = "revoke_api_key"
    /\ last.caller = UserCred("bob")
    /\ last.result = "PermissionDenied"
    /\ APIKey_get_key(last.args.api_key) # {}
    /\ StoredKey(last.args.api_key).owner = "alice"
    /\ KeyContext(last.args.api_key).ok

\* C14: a stored password changes only through update_user_password, for
\* the user the call resolves to, and only if the call is an administrator
\* call on a non-administrator user or the supplied current password
\* verifies; a non-administrator call with a wrong current password fails
\* and leaves every user unchanged.
C14_PasswordChangeNeedsProof ==
    [][/\ \A u \in DOMAIN users \cap DOMAIN users' :
            users'[u].password # users[u].password
            => /\ last'.op = "update_user_password"
               /\ last'.result = "success"
               /\ Resolver.ok
               /\ Resolver.user = u
               /\ users'[u].password = hash_password(last'.args.new_password)
               /\ \/ Resolver.administrator /\ ~users[u].administrator
                  \/ hash_password(last'.args.current_password)
                       = users[u].password
       /\ (/\ last'.op = "update_user_password"
           /\ Resolver.ok
           /\ ~Resolver.administrator
           /\ hash_password(last'.args.current_password)
                # users[Resolver.user].password)
          => /\ last'.result # "success"
             /\ users' = users]_vars

C14_Witness ==
    /\ last.op = "update_user_password"
    /\ last.caller = UserCred("admin")
    /\ last.args.user_context = "alice"
    /\ last.args.current_password = "pw"
    /\ last.args.new_password = "pw2"
    /\ last.result = "success"
    /\ "alice" \in DOMAIN users
    /\ users["alice"].password = hash_password("pw2")

\* C20: create_user stores the new user as a non-administrator whatever the
\* parameters say; on a taken username it fails with DuplicateKey and the
\* stored user stays as it was; so the administrators are always among the
\* initial ones.
C20_CreateUserNeverAdministrator ==
    [][/\ last'.op = "create_user" =>
            IF last'.args.username \in DOMAIN users
            THEN /\ last'.result = "DuplicateKey"
                 /\ users' = users
            ELSE /\ last'.result = "success"
                 /\ DOMAIN users' = DOMAIN users \cup {last'.args.username}
                 /\ ~users'[last'.args.username].administrator
                 /\ \A u \in DOMAIN users : users'[u] = users[u]
       /\ {u \in DOMAIN users' : users'[u].administrator}
            \subseteq InitialAdministrators
       /\ {u \in DOMAIN users' : users'[u].administrator}
            \subseteq {u \in DOMAIN users : users[u].administrator}]_vars

C20_Witness ==
    /\ last.op = "create_user"
    /\ last.args.username = "admin"
    /\ last.args.administrator
    /\ last.result = "success"
    /\ ~users["admin"].administrator

(***************************************************************************)
(* Properties of create_role and of the delegation check on roles          *)
(***************************************************************************)

\* the context of the caller of the step's role call, before the call
RoleCaller == get_context(last'.caller, None)

\* C15: create_role and update_role_permissions pass through the delegation
\* check: a caller whose effective set lacks the wildcard and who asks for a
\* role permission set holding a method the caller lacks gets
\* PermissionDenied, and the role store stays as it was.
C15_RolePermissionsDelegated ==
    [][(/\ last'.op \in {"create_role", "update_role_permissions"}
        /\ RoleCaller.ok
        /\ ~DelegationAllowed(last'.args.allowed_api_calls,
                              RoleCaller.allowed_methods))
       => /\ last'.result = "PermissionDenied"
          /\ roles' = roles]_vars

\* C17: create_role with a fresh name and existing users succeeds and stores
\* a role holding exactly the given permission set and members (none when
\* no users are given); with an unknown user or a taken name it fails and
\* the role store stays as it was.
C17_CreateRoleStoresMembers ==
    [][last'.op = "create_role" =>
         IF /\ last'.args.name \notin DOMAIN roles
            /\ last'.args.users \subseteq DOMAIN users
         THEN /\ last'.result = "success"
              /\ DOMAIN roles' = DOMAIN roles \cup {last'.args.name}
              /\ roles'[last'.args.name]
                   = Role(last'.args.allowed_api_calls, last'.args.users)
              /\ \A r \in DOMAIN roles : roles'[r] = roles[r]
         ELSE /\ last'.result # "success"
              /\ roles' = roles]_vars

(***************************************************************************)
(* Properties of create_api_key under user_context                         *)
(***************************************************************************)

\* the identity the caller of the step's call authenticates as
Authenticated == Authenticate(last'.caller)

\* C16: a non-administrator who supplies user_context to create_api_key gets
\* PermissionDenied and no key is stored; a new key is owned by the
\* authenticated caller, or by the user_context user when that caller is an
\* administrator; and for an impersonating administrator the delegation
\* check is made against the impersonated user's permission set.
C16_KeysForOthersNeedAdministrator ==
    [][last'.op = "create_api_key" =>
         LET uc == last'.args.user_context
             allowed == last'.args.allowed_api_calls
         IN  /\ (Authenticated.ok /\ ~Authenticated.administrator /\ uc # None)
                 => /\ last'.result = "PermissionDenied"
                    /\ apikeys' = apikeys
             /\ \A k \in apikeys' \ apikeys :
                    /\ Authenticated.ok
                    /\ \/ uc = None /\ k.owner = Authenticated.user
                       \/ /\ uc # None
                          /\ Authenticated.administrator
                          /\ k.owner = uc
             /\ (/\ Authenticated.ok
                 /\ Authenticated.administrator
                 /\ uc \in DOMAIN users
                 /\ allowed # {})
                 => (last'.result = "success"
                       <=> DelegationAllowed(allowed, RoleDerived(uc)))]_vars

C16_Witness ==
    /\ last.op = "create_api_key"
    /\ last.caller = UserCred("admin")
    /\ last.args.user_context = "bob"
    /\ last.args.allowed_api_calls = {"list_actions"}
    /\ ~DelegationAllowed(last.args.allowed_api_calls, RoleDerived("admin"))
    /\ last.result = "success"
    /\ NewKey.owner = "bob"
    /\ NewKey.allowed_api_calls = {"list_actions"}

(***************************************************************************)
(* Properties of the action life cycle with duplicate_action               *)
(***************************************************************************)

Absorbed(a) == a.status \in {"cancelled", "retrieved"}

\* C18: Cancelled and Retrieved are absorbing: whatever step is taken, a
\* cancelled or retrieved action is stored unchanged afterwards and stays
\* the only document of its id; cancel_action on a retrieved action answers
\* InvalidStateTransition and leaves the store as it was; and only a queued
\* action is handed to a session.
C18_CancelledRetrievedAbsorbing ==
    [][/\ \A a \in actions :
            Absorbed(a) =>
              {b \in actions' : b.action_id = a.action_id} = {a}
       /\ (/\ last'.op = "cancel_action"
           /\ \E a \in actions : /\ a.action_id = last'.args.action_id
                                  /\ a.status = "retrieved")
          => /\ last'.result = "InvalidStateTransition"
             /\ actions' = actions
       /\ \A a \in actions, b \in actions' :
            (a.action_id = b.action_id /\ b.status = "retrieved")
            => a.status \in {"queued", "retrieved"}]_vars

C18_Witness ==
    /\ last.op = "cancel_action"
    /\ last.result = "InvalidStateTransition"
    /\ \E a \in actions : /\ a.action_id = last.args.action_id
                           /\ a.status = "retrieved"
    /\ \E a \in actions : a.status = "cancelled"

\* C19: duplicate_action by an authenticated caller on a stored action, in
\* whatever state, stores exactly one new action: queued, under a fresh id
\* it returns, with the original's target_name, action_string and
\* bound_session_id, owned by the caller; every stored action stays as it
\* was.  On an unknown id it answers NotFound, and when the original's
\* target is gone CannotBindAction; the store is then unchanged.
C19_DuplicateQueuesCopy ==
    [][(last'.op = "duplicate_action" /\ last'.caller.kind # "none") =>
         LET found == {a \in actions : a.action_id = last'.args.action_id}
             orig == CHOOSE a \in found : TRUE
         IN  IF found = {}
             THEN last'.result = "NotFound" /\ actions' = actions
             ELSE IF orig.target_name \notin targets
             THEN last'.result = "CannotBindAction" /\ actions' = actions
             ELSE /\ last'.result = "success"
                  /\ \E n \in actions' :
                        /\ actions' = actions \cup {n}
                        /\ n.action_id = last'.ret
                        /\ n.action_id \notin ActionIdsIn(actions)
                        /\ n.status = "queued"
                        /\ n.target_name = orig.target_name
                        /\ n.action_string = orig.action_string
                        /\ n.bound_session_id = orig.bound_session_id
                        /\ n.owner = last'.caller.name]_vars

C19_Witness ==
    /\ last.op = "duplicate_action"
    /\ last.result = "success"
    /\ \E o \in actions, n \in actions :
          /\ o.action_id = last.args.action_id
          /\ n.action_id = last.ret
          /\ n.action_id # o.action_id
          /\ o.status = "cancelled"
          /\ o.owner = "alice"
          /\ o.bound_session_id = "s1"
          /\ n.status = "queued"
          /\ n.owner = "bob"
          /\ n.bound_session_id = "s1"

====
